---- MODULE Spec2Model ----
(***************************************************************************)
(* Model of src/architectures/NLU_model.py: the architecture presets       *)
(* (base_architecture and the presets chained onto it), model building,    *)
(* classification-head registration and the state-dict upgrade of          *)
(* SMLP_MLM_Model.                                                         *)
(*                                                                         *)
(* Conventions.                                                            *)
(*  - An args namespace is a function from attribute names to values; an   *)
(*    attribute that is not set is not in the DOMAIN.                      *)
(*  - Python floats are written as strings ("0.1"), None as "None".        *)
(*  - A state-dict key is the sequence of the pieces of the Python string  *)
(*    (<<"decoder", ".", "lm_head", ".", "bias">>), split so that          *)
(*    str.startswith is the prefix relation on sequences.                  *)
(*  - A state dict is a sequence of <<key, value>> pairs with distinct     *)
(*    keys: a Python dict in insertion order.                              *)
(***************************************************************************)
EXTENDS Integers, Sequences, FiniteSets, TLC

VARIABLES
    args,                  \* the args namespace (self.args once the model is built)
    args0,                 \* the namespace as the caller supplied it
    arch,                  \* args.arch: the preset the namespace is resolved with
    nresolved,             \* how many times the preset function ran on args
    built,                 \* build_model has returned a model
    classification_heads,  \* self.classification_heads: name -> head
    ninit,                 \* number of SMLPClassificationHead objects constructed
    state_dict,            \* the state dict after the last upgrade_state_dict_named
    last,                  \* the last call: its name, inputs and the state before it
    warnings,              \* logger.warning records of the last call
    err                    \* "" or the exception the last call raised

vars == <<args, args0, arch, nresolved, built, classification_heads, ninit,
          state_dict, last, warnings, err>>

(***************************************************************************)
(* Bounds                                                                  *)
(***************************************************************************)
MaxCallerFields == 1   \* attributes the caller sets beyond the task's own
MaxResolve == 2        \* runs of the preset function on one namespace
MaxInit == 2           \* heads constructed by explicit registration calls
MaxDim == 2            \* largest num_classes / inner_dim of a head

None == "None"

(***************************************************************************)
(* getattr / setattr on a namespace                                        *)
(***************************************************************************)
hasattr(a, name) == name \in DOMAIN a

getattr(a, name, default) == IF hasattr(a, name) THEN a[name] ELSE default

setattr(a, name, v) == (name :> v) @@ a

\* the line written as  args.<dst> = <default>
Assign_overwrite(a, st) == setattr(a, st[1], st[3])

\* one line  args.<dst> = getattr(args, <src>, <default>)
Assign(a, st) == setattr(a, st[1], getattr(a, st[2], st[3]))

D(name, default) == <<name, name, default>>

\* the assignments stmts, run in order on a
\* the assignments stmts, run in order on a: the first half, then the
\* second half on the namespace the first half leaves
RECURSIVE Exec(_, _)
Exec(a, stmts) ==
    IF stmts = << >> THEN a
    ELSE IF Len(stmts) = 1 THEN Assign(a, stmts[1])
    ELSE LET half == Len(stmts) \div 2
         IN  CHOOSE r \in { Exec(b, SubSeq(stmts, half + 1, Len(stmts))) :
                               b \in { Exec(a, SubSeq(stmts, 1, half)) } } : TRUE

(***************************************************************************)
(* The preset functions: the assignments of each body, in source order,    *)
(* and the function each body calls last.                                  *)
(***************************************************************************)
base_architecture_body ==
    << D("encoder_layers", 12), D("encoder_embed_dim", 768),
       D("encoder_attention_heads", 12),
       D("activation_fn", "gelu"), D("pooler_activation_fn", "tanh"),
       D("dropout", "0.1"), D("pooler_dropout", "0.0"),
       D("encoder_layers_to_keep", None), D("encoder_layerdrop", "0.0"),
       <<"spectral_norm_classification_head",
         "spectral_nrom_classification_head", FALSE>>,
       D("share_encoder_input_output_embed", TRUE),
       D("encoder_learned_pos", FALSE),
       D("no_token_positional_embeddings", FALSE),
       D("sent_loss", TRUE),
       D("normalize_embedding", FALSE), D("adaptive_input", FALSE),
       D("encoder_normalize_before", FALSE), D("encoder_learned_pos", FALSE),
       D("encoder_q_dim", 768), D("encoder_k_dim", 768),
       D("attention_dropout", "0.0"), D("activation_dropout", "0.0"),
       D("activation_fn", "relu"),
       D("use_position_embeddings", TRUE),
       D("smlp_pos", "before_act"), D("has_ffn", FALSE),
       D("kernal_cutoff", FALSE), D("complex", FALSE),
       D("complex_version", "normal"), D("no_beta", FALSE),
       D("norm_type", "layernorm"), D("max_lambda", "0.9999"),
       D("norm_after_smlp", FALSE), D("cls_attn", FALSE),
       D("gate", FALSE), D("freeze", FALSE) >>

smlp_mlm_complex_architecture_body ==
    << D("encoder_normalize_before", TRUE), D("use_position_embeddings", FALSE),
       D("complex", TRUE), D("r_max", "0.9"), D("r_min", "0.1"),
       D("max_phase", "6.28"), D("dt_min", "1e-3"), D("dt_max", "0.1"),
       D("gate_activation_fn", "sigmoid") >>

\* the body shared by the task presets: QQP, sst2, cola, mrpc, qnli, imdb
TaskBody(max_phase, encoder_layers) ==
    << D("r_max", "0.9"), D("r_min", "0.1"), D("max_phase", max_phase),
       D("sen_rep_type", "mp"), D("encoder_embed_dim", 512),
       D("encoder_k_dim", 512), D("encoder_layers", encoder_layers) >>

GateBody == << D("gate", TRUE) >>

\* registered architecture name -> the assignments of the registered function
ARCH_BODY ==
    [ smlp_mlm                   |-> base_architecture_body,
      smlp_mlm_complex           |-> smlp_mlm_complex_architecture_body,
      smlp_mlm_complex_mp        |-> << D("sen_rep_type", "mp") >>,
      smlp_mlm_complex_QQP       |-> TaskBody("6.28", 6),
      smlp_mlm_complex_sst2      |-> TaskBody("6.28", 12),
      smlp_mlm_complex_sst2_gate |-> GateBody,
      smlp_mlm_complex_QQP_gate  |-> GateBody,
      smlp_mlm_complex_cola      |-> TaskBody("6.28", 3),
      smlp_mlm_complex_cola_gate |-> GateBody,
      smlp_mlm_complex_mrpc      |-> TaskBody("6.28", 6),
      smlp_mlm_complex_mrpc_gate |-> GateBody,
      smlp_mlm_complex_mnli      |-> << D("encoder_layers", 12) >>,
      smlp_mlm_complex_mnli_gate |-> << D("gate", TRUE), D("encoder_layers", 12) >>,
      smlp_mlm_complex_gate      |-> << D("decoder_layers", 16), D("gate", TRUE) >>,
      smlp_mlm_complex_qnli      |-> TaskBody("6.28", 6),
      smlp_mlm_complex_qnli_gate |-> GateBody,
      smlp_mlm_complex_imdb      |-> TaskBody("3.14", 4),
      smlp_mlm_complex_imdb_gate |-> GateBody ]

\* registered architecture name -> the architecture whose function the body
\* calls in its last line ("" for base_architecture, which calls none)
ARCH_CALLS ==
    [ smlp_mlm                   |-> "",
      smlp_mlm_complex           |-> "smlp_mlm",
      smlp_mlm_complex_mp        |-> "smlp_mlm_complex",
      smlp_mlm_complex_QQP       |-> "smlp_mlm_complex",
      smlp_mlm_complex_sst2      |-> "smlp_mlm_complex",
      smlp_mlm_complex_sst2_gate |-> "smlp_mlm_complex_sst2",
      smlp_mlm_complex_QQP_gate  |-> "smlp_mlm_complex_sst2",
      smlp_mlm_complex_cola      |-> "smlp_mlm_complex",
      smlp_mlm_complex_cola_gate |-> "smlp_mlm_complex_cola",
      smlp_mlm_complex_mrpc      |-> "smlp_mlm_complex",
      smlp_mlm_complex_mrpc_gate |-> "smlp_mlm_complex_mrpc",
      smlp_mlm_complex_mnli      |-> "smlp_mlm_complex_QQP",
      smlp_mlm_complex_mnli_gate |-> "smlp_mlm_complex_QQP",
      smlp_mlm_complex_gate      |-> "smlp_mlm_complex",
      smlp_mlm_complex_qnli      |-> "smlp_mlm_complex",
      smlp_mlm_complex_qnli_gate |-> "smlp_mlm_complex_QQP",
      smlp_mlm_complex_imdb      |-> "smlp_mlm_complex",
      smlp_mlm_complex_imdb_gate |-> "smlp_mlm_complex_imdb" ]

ARCH_NAMES == DOMAIN ARCH_BODY

\* ARCH_CONFIG_REGISTRY[arch](args): run the body, then the function it calls
RECURSIVE ARCH_CONFIG_REGISTRY(_, _)
ARCH_CONFIG_REGISTRY(name, a) ==
    LET a1 == Exec(a, ARCH_BODY[name])
    IN  IF ARCH_CALLS[name] = "" THEN a1
        ELSE ARCH_CONFIG_REGISTRY(ARCH_CALLS[name], a1)

base_architecture(a) == ARCH_CONFIG_REGISTRY("smlp_mlm", a)

(***************************************************************************)
(* The namespaces a caller can hand in                                     *)
(***************************************************************************)
BoolFields ==
    { "spectral_norm_classification_head", "spectral_nrom_classification_head",
      "share_encoder_input_output_embed", "encoder_learned_pos",
      "no_token_positional_embeddings", "sent_loss", "normalize_embedding",
      "adaptive_input", "encoder_normalize_before", "use_position_embeddings",
      "has_ffn", "kernal_cutoff", "complex", "no_beta", "norm_after_smlp",
      "cls_attn", "gate", "freeze", "load_checkpoint_heads",
      "untie_weights_roberta" }

IntFields ==
    { "encoder_layers", "encoder_embed_dim", "encoder_attention_heads",
      "encoder_q_dim", "encoder_k_dim", "decoder_layers", "max_positions",
      "quant_noise_pq_block_size" }

StrFields ==
    { "activation_fn", "pooler_activation_fn", "dropout", "pooler_dropout",
      "encoder_layers_to_keep", "encoder_layerdrop", "attention_dropout",
      "activation_dropout", "smlp_pos", "complex_version", "norm_type",
      "max_lambda", "r_max", "r_min", "max_phase", "dt_min", "dt_max",
      "gate_activation_fn", "sen_rep_type", "quant_noise_pq",
      "quant_noise_scalar" }

Fields == BoolFields \cup IntFields \cup StrFields

\* values a caller may give an attribute; none is a default of any preset,
\* except for the flags, which take both values
CallerValues(f) ==
    IF f \in BoolFields THEN BOOLEAN
    ELSE IF f \in IntFields THEN {7}
    ELSE IF f = "encoder_layers_to_keep" THEN {"0,1"}
    ELSE IF f = "sen_rep_type" THEN {"cls"}
    ELSE IF f = "quant_noise_pq" THEN {"0.1"}
    ELSE {"caller"}

\* len(args.encoder_layers_to_keep.split(","))
KeepCount(s) == CASE s = "0,1" -> 2 [] OTHER -> 1

\* the task's own option, read by build_model
TaskArgs == [tokens_per_sample |-> 512]

\* the options add_args declares with an explicit default=
ParserDefaults ==
    [ tokens_per_sample |-> 512,
      encoder_layerdrop |-> "0", encoder_layers_to_keep |-> None,
      quant_noise_pq |-> "0", quant_noise_pq_block_size |-> 8,
      quant_noise_scalar |-> "0",
      spectral_norm_classification_head |-> FALSE ]

\* base with at most k further attributes set (or set again) by the caller
RECURSIVE Overrides(_, _)
Overrides(base, k) ==
    IF k = 0 THEN {base}
    ELSE LET prev == Overrides(base, k - 1)
         IN  prev \cup UNION { { setattr(c, f, v) : v \in CallerValues(f) } :
                                  c \in prev, f \in Fields }

(***************************************************************************)
(* Insertion-ordered dicts (Python dict, nn.ModuleDict) as sequences of    *)
(* <<key, value>> pairs with distinct keys                                 *)
(***************************************************************************)
DictKeys(d) == { d[i][1] : i \in DOMAIN d }

DictHas(d, k) == k \in DictKeys(d)

DictGet(d, k) == d[CHOOSE i \in DOMAIN d : d[i][1] = k][2]

\* d[k] = v : an existing key keeps its place, a new key goes last
DictSet(d, k, v) ==
    IF DictHas(d, k)
    THEN [i \in DOMAIN d |-> IF d[i][1] = k THEN <<k, v>> ELSE d[i]]
    ELSE Append(d, <<k, v>>)

\* del d[k]
DictDel(d, k) == SelectSeq(d, LAMBDA e : e[1] # k)

(***************************************************************************)
(* Classification heads                                                    *)
(***************************************************************************)
\* inner_dim=None; "inner_dim or X" treats it like 0, and it differs from
\* every out_features, which are positive
NoneDim == 0

\* SMLPClassificationHead.__init__: the two Linear layers get fresh
\* parameters, named here by the number of the construction
SMLPClassificationHead(inner_dim, num_classes, q_noise, do_spectral_norm, n) ==
    IF do_spectral_norm /\ q_noise # "0"
    THEN [err |-> "NotImplementedError"]
    ELSE [err |-> "", num_classes |-> num_classes, inner_dim |-> inner_dim, init |-> n]

\* the attributes register_classification_head reads from self.args, in
\* the order the call evaluates them
HeadArgs ==
    << "encoder_embed_dim", "pooler_activation_fn", "pooler_dropout",
       "quant_noise_pq", "quant_noise_pq_block_size",
       "spectral_norm_classification_head", "sen_rep_type" >>

\* the first attribute of names that a does not have ("" when it has all)
FirstMissing(a, names) ==
    IF \A i \in DOMAIN names : hasattr(a, names[i]) THEN ""
    ELSE names[CHOOSE i \in DOMAIN names :
                  /\ ~hasattr(a, names[i])
                  /\ \A j \in 1..(i - 1) : hasattr(a, names[j])]

\* the "re-registering head" warning: a head of that name exists and the
\* arguments differ from its out_features
ReRegisterWarns(heads, name, num_classes, inner_dim) ==
    /\ DictHas(heads, name)
    /\ \/ num_classes # DictGet(heads, name).num_classes
       \/ inner_dim # DictGet(heads, name).inner_dim

\* register_classification_head(name, num_classes, inner_dim) on a model
\* with namespace a, heads and n heads constructed so far
register_classification_head(a, heads, n, name, num_classes, inner_dim) ==
    LET warns == IF ReRegisterWarns(heads, name, num_classes, inner_dim)
                 THEN {<<"re-registering head", name>>} ELSE {}
        missing == FirstMissing(a, HeadArgs)
    IN  IF missing # ""
        THEN [heads |-> heads, ninit |-> n, warnings |-> warns,
              err |-> "AttributeError", attr |-> missing]
        ELSE LET h == SMLPClassificationHead(
                          IF inner_dim # NoneDim THEN inner_dim
                          ELSE a["encoder_embed_dim"],
                          num_classes, a["quant_noise_pq"],
                          a["spectral_norm_classification_head"], n + 1)
             IN  IF h.err # ""
                 THEN [heads |-> heads, ninit |-> n, warnings |-> warns,
                       err |-> h.err, attr |-> ""]
                 ELSE [heads |-> DictSet(heads, name,
                                   [num_classes |-> h.num_classes,
                                    inner_dim |-> h.inner_dim, init |-> h.init]),
                       ninit |-> n + 1, warnings |-> warns,
                       err |-> "", attr |-> ""]

(***************************************************************************)
(* build_model                                                             *)
(***************************************************************************)
\* the attributes RobertaEncoder.__init__ reads without a fallback
EncoderArgs ==
    << "encoder_layers_to_keep", "encoder_layers", "encoder_embed_dim",
       "dropout", "max_positions", "use_position_embeddings",
       "encoder_learned_pos", "activation_fn" >>

\* RobertaEncoder.__init__: what it does to args
RobertaEncoder(a) ==
    LET a1 == IF a["encoder_layers_to_keep"] # None
              THEN setattr(a, "encoder_layers", KeepCount(a["encoder_layers_to_keep"]))
              ELSE a
    IN  Assign(a1, D("untie_weights_roberta", FALSE))

\* build_model(args, task)
build_model(a) ==
    LET a1 == base_architecture(a)
    IN  IF ~hasattr(a1, "max_positions") /\ ~hasattr(a1, "tokens_per_sample")
        THEN [args |-> a1, err |-> "AttributeError", attr |-> "tokens_per_sample"]
        ELSE LET a2 == IF ~hasattr(a1, "max_positions")
                       THEN setattr(a1, "max_positions", a1["tokens_per_sample"])
                       ELSE a1
                 missing == FirstMissing(a2, EncoderArgs)
             IN  IF missing # ""
                 THEN [args |-> a2, err |-> "AttributeError", attr |-> missing]
                 ELSE [args |-> RobertaEncoder(a2), err |-> "", attr |-> ""]

(***************************************************************************)
(* upgrade_state_dict_named                                                *)
(***************************************************************************)
\* k.startswith(p)
startswith(k, p) == Len(k) >= Len(p) /\ SubSeq(k, 1, Len(p)) = p

\* prefix = name + "." if name != "" else ""
Prefix(name) == IF name = "" THEN << >> ELSE <<name, ".">>

HeadsPrefix(name) == Prefix(name) \o <<"classification_heads", ".">>

\* s.split(".")[0]
RECURSIVE SplitFirst(_)
SplitFirst(s) ==
    IF s = << >> \/ Head(s) = "." THEN << >> ELSE <<Head(s)>> \o SplitFirst(Tail(s))

\* head_name = k[len(prefix + "classification_heads."):].split(".")[0]
HeadNameOf(k, name) ==
    SplitFirst(SubSeq(k, Len(HeadsPrefix(name)) + 1, Len(k)))

\* new_k = prefix + "encoder" + k[len(prefix + "decoder"):]
RenamedKey(k, name) ==
    Prefix(name) \o <<"encoder">> \o SubSeq(k, Len(Prefix(name)) + 2, Len(k))

IsLegacyKey(k, name) == startswith(k, Prefix(name) \o <<"decoder">>)

\* the rename loop, were it to leave an existing encoder key alone
RECURSIVE RenameLoop_keep(_, _, _)
RenameLoop_keep(sd, keys, name) ==
    IF keys = << >> THEN sd
    ELSE LET k == Head(keys)
         IN  IF IsLegacyKey(k, name)
             THEN RenameLoop_keep(
                      DictDel(IF DictHas(sd, RenamedKey(k, name)) THEN sd
                              ELSE DictSet(sd, RenamedKey(k, name), DictGet(sd, k)), k),
                      Tail(keys), name)
             ELSE RenameLoop_keep(sd, Tail(keys), name)

\* the loop over list(state_dict.keys()) that renames decoder -> encoder
RECURSIVE RenameLoop(_, _, _)
RenameLoop(sd, keys, name) ==
    IF keys = << >> THEN sd
    ELSE LET k == Head(keys)
         IN  IF IsLegacyKey(k, name)
             THEN RenameLoop(DictDel(DictSet(sd, RenamedKey(k, name), DictGet(sd, k)), k),
                             Tail(keys), name)
             ELSE RenameLoop(sd, Tail(keys), name)

KeyList(sd) == [i \in DOMAIN sd |-> sd[i][1]]

\* the parameters of a head, as nn.Module.state_dict() lists them, with the
\* size of their first dimension
HeadParams(h) ==
    << << <<"dense", ".", "weight">>,    h.inner_dim >>,
       << <<"dense", ".", "bias">>,      h.inner_dim >>,
       << <<"out_proj", ".", "weight">>, h.num_classes >>,
       << <<"out_proj", ".", "bias">>,   h.num_classes >> >>

\* the current value of a parameter of the live model
ModelValue(h, size0) == [size0 |-> size0, data |-> <<"init", h.init>>]

\* self.classification_heads.state_dict()
RECURSIVE cur_state(_)
cur_state(heads) ==
    IF heads = << >> THEN << >>
    ELSE LET hn == Head(heads)[1]
             h  == Head(heads)[2]
         IN  [i \in 1..4 |-> << hn \o <<".">> \o HeadParams(h)[i][1],
                                ModelValue(h, HeadParams(h)[i][2]) >>]
             \o cur_state(Tail(heads))

\* the membership test, were it to find no head name
InCurrentHeadNames_none(heads, head_name) == FALSE

\* head_name in current_head_names; current_head_names is the key view of
\* self.classification_heads, which follows the registrations made in the loop
InCurrentHeadNames(heads, head_name) == DictHas(heads, head_name)

\* the loop over state_dict.keys() that reconciles the heads; st is
\* [heads, ninit, warnings, keys_to_delete, err, attr]
RECURSIVE HeadLoop(_, _, _, _, _)
HeadLoop(a, sd, keys, name, st) ==
    IF keys = << >> \/ st.err # "" THEN st
    ELSE LET k == Head(keys)
         IN  IF ~startswith(k, HeadsPrefix(name))
             THEN HeadLoop(a, sd, Tail(keys), name, st)
             ELSE
             LET head_name == HeadNameOf(k, name)
                 out_k == HeadsPrefix(name) \o head_name \o <<".", "out_proj", ".", "weight">>
                 dense_k == HeadsPrefix(name) \o head_name \o <<".", "dense", ".", "weight">>
             IN  IF ~DictHas(sd, out_k) \/ ~DictHas(sd, dense_k)
                 THEN [st EXCEPT !.err = "KeyError"]
                 ELSE
                 LET num_classes == DictGet(sd, out_k).size0
                     inner_dim == DictGet(sd, dense_k).size0
                     known == InCurrentHeadNames(st.heads, head_name)
                 IN  IF getattr(a, "load_checkpoint_heads", FALSE)
                     THEN IF ~known
                          THEN LET r == register_classification_head(
                                            a, st.heads, st.ninit, head_name,
                                            num_classes, inner_dim)
                               IN  HeadLoop(a, sd, Tail(keys), name,
                                       [st EXCEPT !.heads = r.heads, !.ninit = r.ninit,
                                                  !.warnings = @ \cup r.warnings,
                                                  !.err = r.err, !.attr = r.attr])
                          ELSE HeadLoop(a, sd, Tail(keys), name, st)
                     ELSE IF ~known
                          THEN HeadLoop(a, sd, Tail(keys), name,
                                   [st EXCEPT !.warnings = @ \cup {<<"deleting head not present", k>>},
                                              !.keys_to_delete = Append(@, k)])
                          ELSE IF \/ num_classes # DictGet(st.heads, head_name).num_classes
                                  \/ inner_dim # DictGet(st.heads, head_name).inner_dim
                          THEN HeadLoop(a, sd, Tail(keys), name,
                                   [st EXCEPT !.warnings = @ \cup {<<"deleting head with different dimensions", k>>},
                                              !.keys_to_delete = Append(@, k)])
                          ELSE HeadLoop(a, sd, Tail(keys), name, st)

\* for k in keys_to_delete: del state_dict[k]
RECURSIVE DeleteKeys(_, _)
DeleteKeys(sd, keys) ==
    IF keys = << >> THEN sd ELSE DeleteKeys(DictDel(sd, Head(keys)), Tail(keys))

\* the copy loop, were it to lack the "not in state_dict" test
RECURSIVE Backfill_always(_, _, _)
Backfill_always(sd, items, name) ==
    IF items = << >> THEN sd
    ELSE Backfill_always(DictSet(sd, HeadsPrefix(name) \o Head(items)[1], Head(items)[2]),
                         Tail(items), name)

\* the loop over cur_state.items() that copies the missing head
\* parameters into the state dict
RECURSIVE Backfill(_, _, _)
Backfill(sd, items, name) ==
    IF items = << >> THEN sd
    ELSE LET k == HeadsPrefix(name) \o Head(items)[1]
         IN  IF ~DictHas(sd, k)
             THEN Backfill(DictSet(sd, k, Head(items)[2]), Tail(items), name)
             ELSE Backfill(sd, Tail(items), name)

\* upgrade_state_dict_named(state_dict, name) on a model with namespace a,
\* heads and n heads constructed so far.  The children's own upgrade
\* (super().upgrade_state_dict_named) is outside this file and is taken to
\* leave the dict alone.  An exception leaves the dict as it is at the raise.
upgrade_state_dict_named(a, heads, n, sd, name) ==
    LET sd1 == RenameLoop(sd, KeyList(sd), name)
        st == HeadLoop(a, sd1, KeyList(sd1), name,
                  [heads |-> heads, ninit |-> n, warnings |-> {},
                   keys_to_delete |-> << >>, err |-> "", attr |-> ""])
    IN  IF st.err # ""
        THEN [state_dict |-> sd1, heads |-> st.heads, ninit |-> st.ninit,
              warnings |-> st.warnings, dropped |-> << >>, err |-> st.err]
        ELSE [state_dict |-> Backfill(DeleteKeys(sd1, st.keys_to_delete),
                                      cur_state(st.heads), name),
              heads |-> st.heads, ninit |-> st.ninit,
              warnings |-> st.warnings, dropped |-> st.keys_to_delete, err |-> ""]

(***************************************************************************)
(* The checkpoints handed to upgrade_state_dict_named                      *)
(***************************************************************************)
HeadNames == { <<"a">>, <<"b">> }

\* a persisted tensor: the size of its first dimension and what it holds
CkptValue(size0, id) == [size0 |-> size0, data |-> <<"ckpt", id>>]

\* the keys outside the heads, each with its own content
OtherEntries(name) ==
    << << Prefix(name) \o <<"decoder", ".", "lm_head", ".", "bias">>, CkptValue(1, 1) >>,
       << Prefix(name) \o <<"encoder", ".", "lm_head", ".", "bias">>, CkptValue(1, 2) >>,
       << Prefix(name) \o <<"decoder", "_proj", ".", "weight">>,      CkptValue(1, 3) >> >>

\* the four entries of a persisted head hn with the given sizes
HeadEntries(name, hn, id, num_classes, inner_dim) ==
    LET h == [num_classes |-> num_classes, inner_dim |-> inner_dim]
    IN  [i \in 1..4 |-> << HeadsPrefix(name) \o hn \o <<".">> \o HeadParams(h)[i][1],
                           CkptValue(HeadParams(h)[i][2], id + i) >>]

\* which of the four entries a checkpoint holds: all, all but
\* out_proj.weight, all but dense.weight, dense.bias alone, or none
PresentSets == { {1, 2, 3, 4}, {1, 2, 4}, {2, 3, 4}, {2}, {} }

\* the same for the second head: all, dense.bias alone, or none
PresentSetsB == { {1, 2, 3, 4}, {2}, {} }

Pick(seq, idx) == SelectSeq([i \in DOMAIN seq |-> <<i, seq[i]>>], LAMBDA e : e[1] \in idx)

Strip(seq) == [i \in DOMAIN seq |-> seq[i][2]]

SubSeqOf(seq, idx) == Strip(Pick(seq, idx))

Reverse(seq) == [i \in DOMAIN seq |-> seq[Len(seq) + 1 - i]]

PersistedHeads(name, hn, id, dims, present) ==
    { SubSeqOf(HeadEntries(name, hn, id, nc, idim), ps) :
          nc \in dims, idim \in dims, ps \in present }

\* a checkpoint: some of the other keys, a head "a" of any size and a head
\* "b" of size 1, each whole, in part or absent; in this order or reversed
Checkpoints(name) ==
    LET fwd == { SubSeqOf(OtherEntries(name), o) \o ha \o hb :
                    o \in SUBSET (1..3),
                    ha \in PersistedHeads(name, <<"a">>, 10, 1..MaxDim, PresentSets),
                    hb \in PersistedHeads(name, <<"b">>, 20, {1}, PresentSetsB) }
    IN  fwd \cup { Reverse(c) : c \in fwd }

ModuleNames == { "" }

(***************************************************************************)
(* Actions                                                                 *)
(***************************************************************************)
NoCall == [op |-> "init", args |-> << >>, heads |-> << >>, ninit |-> 0,
           hn |-> << >>, num_classes |-> 0, inner_dim |-> 0,
           blob |-> << >>, name |-> "", dropped |-> << >>, attr |-> ""]

\* ARCH_CONFIG_REGISTRY[args.arch](args), as the framework calls it
Resolve ==
    /\ ~built /\ err = ""
    /\ nresolved < MaxResolve
    /\ args' = ARCH_CONFIG_REGISTRY(arch, args)
    /\ nresolved' = nresolved + 1
    /\ last' = [NoCall EXCEPT !.op = "resolve", !.args = args]
    /\ warnings' = {}
    /\ UNCHANGED <<args0, arch, built, classification_heads, ninit, state_dict, err>>

BuildModel ==
    /\ ~built /\ err = ""
    /\ nresolved >= 1
    /\ LET r == build_model(args)
       IN  /\ args' = r.args
           /\ err' = r.err
           /\ built' = (r.err = "")
           /\ last' = [NoCall EXCEPT !.op = "build_model", !.args = args, !.attr = r.attr]
    /\ warnings' = {}
    /\ UNCHANGED <<args0, arch, nresolved, classification_heads, ninit, state_dict>>

RegisterClassificationHead(hn, num_classes, inner_dim) ==
    /\ built /\ err = ""
    /\ last.op # "upgrade_state_dict_named"
    /\ ninit < MaxInit
    /\ LET r == register_classification_head(args, classification_heads, ninit,
                                             hn, num_classes, inner_dim)
       IN  /\ classification_heads' = r.heads
           /\ ninit' = r.ninit
           /\ warnings' = r.warnings
           /\ err' = r.err
           /\ last' = [NoCall EXCEPT !.op = "register_classification_head",
                                     !.heads = classification_heads, !.ninit = ninit,
                                     !.hn = hn, !.num_classes = num_classes,
                                     !.inner_dim = inner_dim, !.attr = r.attr]
    /\ UNCHANGED <<args, args0, arch, nresolved, built, state_dict>>

\* the model loads one checkpoint, after its heads are registered
UpgradeStateDictNamed(sd, name) ==
    /\ built /\ err = ""
    /\ last.op # "upgrade_state_dict_named"
    /\ LET r == upgrade_state_dict_named(args, classification_heads, ninit, sd, name)
       IN  /\ state_dict' = r.state_dict
           /\ classification_heads' = r.heads
           /\ ninit' = r.ninit
           /\ warnings' = r.warnings
           /\ err' = r.err
           /\ last' = [NoCall EXCEPT !.op = "upgrade_state_dict_named",
                                     !.heads = classification_heads, !.ninit = ninit,
                                     !.blob = sd, !.name = name, !.dropped = r.dropped]
    /\ UNCHANGED <<args, args0, arch, nresolved, built>>

(***************************************************************************)
(* Specifications                                                          *)
(***************************************************************************)
\* the namespaces a caller resolves a preset on: the task's options alone
\* (the empty configuration) with a few attributes set by the caller, or
\* the parser's defaults
CallerConfigs == Overrides(TaskArgs, MaxCallerFields) \cup {ParserDefaults}

\* a namespace that a resolution of the preset a has filled (the args stored
\* in a checkpoint), with a few attributes set again by the caller
FullConfigs(a) == Overrides(ARCH_CONFIG_REGISTRY(a, TaskArgs), MaxCallerFields)

InitCommon ==
    /\ args = args0
    /\ nresolved = 0 /\ built = FALSE
    /\ classification_heads = << >> /\ ninit = 0
    /\ state_dict = << >>
    /\ last = NoCall /\ warnings = {} /\ err = ""

\* resolution of the presets
InitArch ==
    /\ arch \in ARCH_NAMES
    /\ args0 \in CallerConfigs \cup FullConfigs(arch)
    /\ InitCommon

NextArch == Resolve

SpecArch == InitArch /\ [][NextArch]_vars

\* from the empty configuration to a model with heads
InitHead ==
    /\ arch \in ARCH_NAMES
    /\ args0 \in {TaskArgs, ParserDefaults}
    /\ InitCommon

NextHead ==
    \/ Resolve
    \/ BuildModel
    \/ \E hn \in HeadNames, nc \in 1..MaxDim, idim \in {NoneDim} \cup 1..MaxDim :
           RegisterClassificationHead(hn, nc, idim)

SpecHead == InitHead /\ [][NextHead]_vars

\* a built model: heads are registered and checkpoints are upgraded
ModelConfigs ==
    { setattr(ParserDefaults, "sen_rep_type", "cls"),
      setattr(setattr(ParserDefaults, "sen_rep_type", "cls"), "load_checkpoint_heads", TRUE) }

Init ==
    /\ args0 \in ModelConfigs
    /\ args = build_model(ARCH_CONFIG_REGISTRY("smlp_mlm_complex", args0)).args
    /\ arch = "smlp_mlm_complex" /\ nresolved = 1 /\ built = TRUE
    /\ classification_heads = << >> /\ ninit = 0
    /\ state_dict = << >>
    /\ last = NoCall /\ warnings = {} /\ err = ""

\* before the load the task registers (and re-registers) the head "a"; the
\* checkpoint may hold the heads "a" and "b"
Next ==
    \/ \E nc \in 1..MaxDim, idim \in 1..MaxDim :
           RegisterClassificationHead(<<"a">>, nc, idim)
    \/ \E name \in ModuleNames : \E sd \in Checkpoints(name) :
           UpgradeStateDictNamed(sd, name)

Spec == Init /\ [][Next]_vars

(***************************************************************************)
(* Properties of the resolution of presets (SpecArch, SpecHead)            *)
(***************************************************************************)
\* the attributes a body assigns
Dsts(body) == { body[i][1] : i \in DOMAIN body }

\* the default of the first assignment of f in body
FirstDefault(body, f) ==
    body[CHOOSE i \in DOMAIN body :
            /\ body[i][1] = f
            /\ \A j \in 1..(i - 1) : body[j][1] # f][3]

\* the attributes assigned by the preset a or by a preset it chains to
RECURSIVE ChainFields(_)
ChainFields(a) ==
    Dsts(ARCH_BODY[a]) \cup (IF ARCH_CALLS[a] = "" THEN {} ELSE ChainFields(ARCH_CALLS[a]))

\* the default of f in the most-derived preset of a's chain that assigns f
RECURSIVE MostDerivedDefault(_, _)
MostDerivedDefault(a, f) ==
    IF f \in Dsts(ARCH_BODY[a]) THEN FirstDefault(ARCH_BODY[a], f)
    ELSE MostDerivedDefault(ARCH_CALLS[a], f)

BaseFields == Dsts(base_architecture_body)

\* the preset function has just run on the namespace
Resolved == last.op = "resolve"

\* the caller supplied nothing but the task's own options
FromEmpty == args0 = TaskArgs

\* C1: once the preset has been resolved, every attribute the caller had set
\* before resolution still has the caller's value.
C1_CallerValuesKept ==
    (Resolved /\ nresolved = 1) => \A f \in DOMAIN args0 : args[f] = args0[f]

\* C2: resolving a preset on the empty configuration sets every attribute
\* base_architecture assigns, and every attribute a preset of the chain
\* assigns has the default of the most-derived preset that assigns it
\* (within one body, of its first assignment).
C2_MostDerivedWins ==
    (Resolved /\ nresolved = 1 /\ FromEmpty) =>
        /\ BaseFields \subseteq DOMAIN args
        /\ \A f \in ChainFields(arch) :
               f \in DOMAIN args /\ args[f] = MostDerivedDefault(arch, f)
        /\ args["activation_fn"] = "gelu"
        /\ arch = "smlp_mlm_complex" =>
               args["encoder_normalize_before"] = TRUE
               /\ args["use_position_embeddings"] = FALSE
        /\ arch = "smlp_mlm_complex_cola" =>
               args["encoder_layers"] = 3 /\ args["encoder_embed_dim"] = 512

C2_Witness ==
    /\ Resolved /\ nresolved = 1 /\ FromEmpty
    /\ arch = "smlp_mlm_complex_cola"
    /\ args["encoder_layers"] = 3
    /\ args["encoder_normalize_before"] = TRUE

\* C3: resolution is idempotent: (i) a second resolution of the result of
\* resolving the empty configuration changes nothing, and (ii) resolving a
\* namespace that has every attribute of the preset's chain set changes
\* nothing.
C3_Idempotent ==
    /\ (Resolved /\ nresolved = 2 /\ FromEmpty) => args = last.args
    /\ (Resolved /\ ChainFields(arch) \subseteq DOMAIN last.args) => args = last.args

\* C4: on a model built from a preset resolved on the empty configuration
\* every attribute that the encoder and register_classification_head read
\* is set, and registering a head raises no error.
C4_NoMissingField ==
    /\ (FromEmpty /\ built) =>
           \A i \in DOMAIN HeadArgs : hasattr(args, HeadArgs[i])
    /\ (FromEmpty /\ built) =>
           \A i \in DOMAIN EncoderArgs : hasattr(args, EncoderArgs[i])
    /\ (FromEmpty /\ last.op = "register_classification_head") => err = ""

(***************************************************************************)
(* Properties of head registration and of the state-dict upgrade           *)
(***************************************************************************)
Upgraded == last.op = "upgrade_state_dict_named"

Registered == last.op = "register_classification_head"

LoadCheckpointHeads ==
    hasattr(args, "load_checkpoint_heads") /\ args["load_checkpoint_heads"] = TRUE

ParamNames ==
    << <<"dense", ".", "weight">>, <<"dense", ".", "bias">>,
       <<"out_proj", ".", "weight">>, <<"out_proj", ".", "bias">> >>

\* prefix + "classification_heads." + hn + "." + the i-th parameter name
ParamKey(hn, i) == HeadsPrefix(last.name) \o hn \o <<".">> \o ParamNames[i]

DenseWeightKey(hn) == ParamKey(hn, 1)

OutProjWeightKey(hn) == ParamKey(hn, 3)

\* the first dimension of the i-th parameter of a head h
ParamSize(h, i) == IF i \in {1, 2} THEN h.inner_dim ELSE h.num_classes

\* the keys of sd under prefix + "classification_heads." + hn + "."
KeysOfHead(sd, hn) ==
    { k \in DictKeys(sd) : startswith(k, HeadsPrefix(last.name) \o hn \o <<".">>) }

\* the head names that occur in the persisted blob
BlobHeads ==
    { hn \in HeadNames : KeysOfHead(last.blob, hn) # {} }

Dropped == { last.dropped[i] : i \in DOMAIN last.dropped }

\* the persisted sizes of hn differ from those of the head registered
\* under that name before the call
ShapeMismatch(hn) ==
    \/ /\ DictHas(last.blob, OutProjWeightKey(hn))
       /\ DictGet(last.blob, OutProjWeightKey(hn)).size0 # DictGet(last.heads, hn).num_classes
    \/ /\ DictHas(last.blob, DenseWeightKey(hn))
       /\ DictGet(last.blob, DenseWeightKey(hn)).size0 # DictGet(last.heads, hn).inner_dim

\* every parameter of the head hn is in the state dict with the value it
\* has in the live model
HoldsModelValues(hn) ==
    \A i \in 1..4 :
        /\ DictHas(state_dict, ParamKey(hn, i))
        /\ DictGet(state_dict, ParamKey(hn, i)) =
               [size0 |-> ParamSize(DictGet(classification_heads, hn), i),
                data |-> <<"init", DictGet(classification_heads, hn).init>>]

\* C5: after an upgrade that returned, every key of a registered head whose
\* persisted sizes differ from the model's has been dropped and the state
\* dict holds the model's current parameters of that head, whatever
\* load_checkpoint_heads is.
C5_MismatchDropped ==
    (Upgraded /\ err = "") =>
        \A hn \in BlobHeads \cap DictKeys(last.heads) :
            ShapeMismatch(hn) =>
                /\ KeysOfHead(last.blob, hn) \subseteq Dropped
                /\ HoldsModelValues(hn)

\* C6: after an upgrade that returned, every parameter key of every
\* registered head is in the state dict; a key that was in the blob and
\* was not dropped has its persisted value, any other the model's value.
C6_CompleteHeads ==
    (Upgraded /\ err = "") =>
        \A hn \in DictKeys(classification_heads) : \A i \in 1..4 :
            LET k == ParamKey(hn, i)
                h == DictGet(classification_heads, hn)
            IN  /\ DictHas(state_dict, k)
                /\ IF DictHas(last.blob, k) /\ k \notin Dropped
                   THEN DictGet(state_dict, k) = DictGet(last.blob, k)
                   ELSE DictGet(state_dict, k) =
                            [size0 |-> ParamSize(h, i), data |-> <<"init", h.init>>]

\* with load_checkpoint_heads: the head "a" is registered and not in the
\* blob, so its parameters are copied from the model; the head "b" comes
\* from the blob and keeps its persisted values
C6_Witness ==
    /\ Upgraded /\ err = ""
    /\ DictHas(last.heads, <<"a">>)
    /\ KeysOfHead(last.blob, <<"a">>) = {}
    /\ DictGet(state_dict, ParamKey(<<"a">>, 1)).data
           = <<"init", DictGet(classification_heads, <<"a">>).init>>
    /\ DictHas(classification_heads, <<"b">>)
    /\ DictHas(last.blob, ParamKey(<<"b">>, 1))
    /\ DictGet(state_dict, ParamKey(<<"b">>, 1)) = DictGet(last.blob, ParamKey(<<"b">>, 1))

\* the heads of the blob that hold both out_proj.weight and dense.weight
\* and were not registered before the call
UnknownHeads ==
    { hn \in BlobHeads \ DictKeys(last.heads) :
        DictHas(last.blob, OutProjWeightKey(hn)) /\ DictHas(last.blob, DenseWeightKey(hn)) }

\* C7: with load_checkpoint_heads, a head of the blob that is not registered
\* (and whose two weights are in the blob) is registered by the upgrade,
\* once, with the persisted sizes, and its persisted keys stay in the state
\* dict with their persisted values.
C7_UnknownHeadRegistered ==
    (Upgraded /\ LoadCheckpointHeads) =>
        /\ \A hn \in UnknownHeads :
              /\ DictHas(classification_heads, hn)
              /\ DictGet(classification_heads, hn).num_classes
                     = DictGet(last.blob, OutProjWeightKey(hn)).size0
              /\ DictGet(classification_heads, hn).inner_dim
                     = DictGet(last.blob, DenseWeightKey(hn)).size0
              /\ \A k \in KeysOfHead(last.blob, hn) :
                     DictHas(state_dict, k) /\ DictGet(state_dict, k) = DictGet(last.blob, k)
        /\ ninit - last.ninit = Cardinality(UnknownHeads)

\* the same, for the calls that return
C7_WhenCallReturns == err = "" => C7_UnknownHeadRegistered

\* C8: without load_checkpoint_heads, every key of a head of the blob that is
\* not registered (and whose two weights are in the blob) is removed,
\* recorded as dropped and warned about, and no key of that head is left in
\* the state dict.
C8_UnknownHeadDropped ==
    (Upgraded /\ ~LoadCheckpointHeads) =>
        \A hn \in UnknownHeads :
            /\ KeysOfHead(state_dict, hn) = {}
            /\ \A k \in KeysOfHead(last.blob, hn) :
                   k \in Dropped /\ <<"deleting head not present", k>> \in warnings

\* the same, for the calls that return
C8_WhenCallReturns == err = "" => C8_UnknownHeadDropped

\* k with its "decoder" piece replaced by "encoder"
AsEncoderKey(k) == [k EXCEPT ![Len(Prefix(last.name)) + 1] = "encoder"]

InDecoderNamespace(k) == startswith(k, Prefix(last.name) \o <<"decoder", ".">>)

\* C9: after an upgrade every persisted key under prefix + "decoder." is in
\* the state dict under "encoder" with the legacy key's value, also when
\* the encoder key was in the blob, and no key under "decoder." is left.
C9_DecoderRenamed ==
    Upgraded =>
        /\ \A k \in DictKeys(last.blob) :
               InDecoderNamespace(k) =>
                   /\ DictHas(state_dict, AsEncoderKey(k))
                   /\ DictGet(state_dict, AsEncoderKey(k)) = DictGet(last.blob, k)
        /\ \A k \in DictKeys(state_dict) : ~InDecoderNamespace(k)

\* a blob that holds decoder.lm_head.bias and encoder.lm_head.bias
C9_Witness ==
    /\ Upgraded
    /\ \E k \in DictKeys(last.blob) :
           /\ InDecoderNamespace(k)
           /\ DictHas(last.blob, AsEncoderKey(k))
           /\ DictGet(state_dict, AsEncoderKey(k)) = DictGet(last.blob, k)
           /\ DictGet(last.blob, AsEncoderKey(k)) # DictGet(last.blob, k)

\* the inner dimension register_classification_head gives a head
EffectiveInnerDim(inner_dim) ==
    IF inner_dim = NoneDim THEN args["encoder_embed_dim"] ELSE inner_dim

\* C10: registering a name that is registered with the same num_classes and
\* inner dimension (also when inner_dim is None both times) leaves the
\* heads, their parameters included, as they were and logs no warning.
C10_ReRegisterNoOp ==
    ( /\ Registered /\ err = ""
      /\ DictHas(last.heads, last.hn)
      /\ DictGet(last.heads, last.hn).num_classes = last.num_classes
      /\ DictGet(last.heads, last.hn).inner_dim = EffectiveInnerDim(last.inner_dim) )
    => (classification_heads = last.heads /\ warnings = {})

\* C11: an upgrade never raises: whatever keys of a head the blob holds, the
\* call completes.
C11_UpgradeTotal == Upgraded => err = ""

\* the key k is under prefix + "classification_heads."
InHeadsNamespace(k) == startswith(k, HeadsPrefix(last.name))

\* the key k is the name a key of the blob under prefix + "decoder." is
\* rewritten to
IsRenameTarget(k) ==
    \E j \in DictKeys(last.blob) : InDecoderNamespace(j) /\ AsEncoderKey(j) = k

\* C12: after an upgrade every key of the blob that is neither under
\* prefix + "decoder." nor under prefix + "classification_heads." (and is not
\* the name a key under "decoder." is rewritten to) is in the state dict
\* under the same name with the same value; such as "decoder_proj.weight".
C12_OtherKeysUnchanged ==
    Upgraded =>
        \A k \in DictKeys(last.blob) :
            (~InDecoderNamespace(k) /\ ~InHeadsNamespace(k) /\ ~IsRenameTarget(k)) =>
                /\ DictHas(state_dict, k)
                /\ DictGet(state_dict, k) = DictGet(last.blob, k)

\* the same for the keys that do not begin with the letters "decoder"
C12_NonDecoderKeysUnchanged ==
    Upgraded =>
        \A k \in DictKeys(last.blob) :
            (~IsLegacyKey(k, last.name) /\ ~InHeadsNamespace(k) /\ ~IsRenameTarget(k)) =>
                /\ DictHas(state_dict, k)
                /\ DictGet(state_dict, k) = DictGet(last.blob, k)

(***************************************************************************)
(* The gated presets                                                       *)
(***************************************************************************)
\* the task presets registered under a name that ends in "_gate" -> the
\* preset registered under the name without that suffix
GatePresets ==
    [ smlp_mlm_complex_sst2_gate |-> "smlp_mlm_complex_sst2",
      smlp_mlm_complex_QQP_gate  |-> "smlp_mlm_complex_QQP",
      smlp_mlm_complex_cola_gate |-> "smlp_mlm_complex_cola",
      smlp_mlm_complex_mrpc_gate |-> "smlp_mlm_complex_mrpc",
      smlp_mlm_complex_mnli_gate |-> "smlp_mlm_complex_mnli",
      smlp_mlm_complex_qnli_gate |-> "smlp_mlm_complex_qnli",
      smlp_mlm_complex_imdb_gate |-> "smlp_mlm_complex_imdb" ]

\* the record the gated preset g is to resolve to on the empty configuration
GatedRecord(g) == setattr(ARCH_CONFIG_REGISTRY(GatePresets[g], TaskArgs), "gate", TRUE)

\* C13: a gated task preset resolves, on the empty configuration, to the
\* record of the preset without the "_gate" suffix with gate set to True.
C13_GateEqualsBase ==
    (Resolved /\ FromEmpty /\ arch \in DOMAIN GatePresets) => args = GatedRecord(arch)

\* the same for the gated presets other than smlp_mlm_complex_QQP_gate
C13_GateEqualsBaseButQQP ==
    (Resolved /\ FromEmpty /\ arch \in DOMAIN GatePresets \ {"smlp_mlm_complex_QQP_gate"})
        => args = GatedRecord(arch)

(***************************************************************************)
(* The registered heads across an upgrade                                  *)
(***************************************************************************)
\* the heads registered by the upgrade
AddedHeads == DictKeys(classification_heads) \ DictKeys(last.heads)

\* C14: an upgrade leaves every head that was registered before the call as
\* it was; without load_checkpoint_heads the heads are the same before and
\* after, and with it the only change is the addition of heads of the blob
\* whose names were not registered, each constructed once.
C14_RegisteredHeadsKept ==
    Upgraded =>
        /\ Len(classification_heads) >= Len(last.heads)
        /\ SubSeq(classification_heads, 1, Len(last.heads)) = last.heads
        /\ ~LoadCheckpointHeads => classification_heads = last.heads /\ ninit = last.ninit
        /\ LoadCheckpointHeads =>
               /\ AddedHeads \subseteq BlobHeads
               /\ Len(classification_heads) = Len(last.heads) + Cardinality(AddedHeads)
               /\ ninit = last.ninit + Cardinality(AddedHeads)

\* with load_checkpoint_heads, the head "a" is registered and the blob holds
\* all four keys of "a", with other sizes, and of "b": "b" is added
C14_Witness ==
    /\ Upgraded /\ err = "" /\ LoadCheckpointHeads
    /\ DictHas(last.heads, <<"a">>)
    /\ Cardinality(KeysOfHead(last.blob, <<"a">>)) = 4
    /\ ShapeMismatch(<<"a">>)
    /\ Cardinality(KeysOfHead(last.blob, <<"b">>)) = 4
    /\ AddedHeads = { <<"b">> }

====
